---- MODULE Spec2Model ----
(***************************************************************************)
(* Model of openapi-mocker: the example-resolution engine of               *)
(* src/openapi/spec.rs (Spec::get_example), the older engine of            *)
(* src/spec.rs (load_endpoint / load_response / load_example) and the HTTP *)
(* handler of src/server.rs (handle_all / build_response).                 *)
(*                                                                         *)
(* Strings whose characters the code inspects (paths, query strings,       *)
(* example names, status keys) are sequences of one-character strings.     *)
(* Maps (BTreeMap / HashMap) are functions; a BTreeMap is iterated in the  *)
(* ascending byte order of its keys.                                       *)
(***************************************************************************)
EXTENDS Integers, Sequences, FiniteSets, TLC

\* ------------------------------------------------------------------------
\* Bounds of the model
\* ------------------------------------------------------------------------

\* largest number of example collections handed to find_example_match
MaxCollections == 2

\* largest number of named examples in one collection
MaxEntries == 2

\* number of nested extract_response / resolve frames the thread's stack holds
StackFrames == 6

\* ------------------------------------------------------------------------
\* Option, aborts
\* ------------------------------------------------------------------------

None == [tag |-> "None"]

Some(x) == [tag |-> "Some", val |-> x]

\* the thread ran out of stack in an unbounded recursion: the process aborts
StackOverflow == [tag |-> "StackOverflow"]

\* a panic!/expect unwinds the handler: no response is produced
Panic(msg) == [tag |-> "Panic", msg |-> msg]

\* Option::and_then as chained in Spec::get_example (src/openapi/spec.rs,
\* lines 23-30); an abort of an earlier stage is passed through
AndThen(o, F(_)) == IF o.tag = "Some" THEN F(o.val) ELSE o

\* ------------------------------------------------------------------------
\* Characters and strings
\* ------------------------------------------------------------------------

\* the characters of the model, in ascending byte order
Alphabet ==
    << "#", "&", "+", "/", "0", "1", "2", "3", "4", "5", "6", "7", "8", "9",
       ":", "=",
       "a", "b", "c", "d", "e", "f", "l", "p", "q", "r", "t", "u", "y",
       "{", "}" >>

Code(c) == CHOOSE i \in 1..Len(Alphabet) : Alphabet[i] = c

\* byte-wise lexicographic order of String (Ord for String)
RECURSIVE StrLess(_, _)
StrLess(s, t) ==
    IF t = <<>> THEN FALSE
    ELSE IF s = <<>> THEN TRUE
    ELSE IF Code(Head(s)) # Code(Head(t)) THEN Code(Head(s)) < Code(Head(t))
    ELSE StrLess(Tail(s), Tail(t))

StartsWith(s, p) == Len(s) >= Len(p) /\ SubSeq(s, 1, Len(p)) = p

EndsWith(s, p) == Len(s) >= Len(p) /\ SubSeq(s, Len(s) - Len(p) + 1, Len(s)) = p

\* str::split(sep): the pieces between the separators, empty pieces kept
RECURSIVE Split(_, _)
Split(s, sep) ==
    IF \E i \in 1..Len(s) : s[i] = sep
    THEN LET i == CHOOSE k \in 1..Len(s) :
                      s[k] = sep /\ \A j \in 1..(k - 1) : s[j] # sep
         IN  <<SubSeq(s, 1, i - 1)>> \o Split(SubSeq(s, i + 1, Len(s)), sep)
    ELSE <<s>>

\* str::trim_start_matches(p): the prefix is removed as often as it repeats
RECURSIVE TrimStartMatches(_, _)
TrimStartMatches(s, p) ==
    IF p # <<>> /\ StartsWith(s, p)
    THEN TrimStartMatches(SubSeq(s, Len(p) + 1, Len(s)), p)
    ELSE s

\* the keys of a BTreeMap in iteration order
RECURSIVE SortedKeys(_)
SortedKeys(keys) ==
    IF keys = {} THEN <<>>
    ELSE LET least == CHOOSE k \in keys : \A o \in keys \ {k} : StrLess(k, o)
         IN  <<least>> \o SortedKeys(keys \ {least})

\* map.get(key)
Get(m, k) == IF k \in DOMAIN m THEN Some(m[k]) ELSE None

\* ------------------------------------------------------------------------
\* QueryString (src/openapi/spec.rs)
\* ------------------------------------------------------------------------

QueryPrefix == <<"q", "u", "e", "r", "y", ":">>

DefaultName == <<"d", "e", "f", "a", "u", "l", "t">>

\* |pair| { let mut split = pair.split('='); (next().unwrap(), next().unwrap_or("")) }
PairOf(pair) ==
    LET split == Split(pair, "=")
    IN  <<split[1], IF Len(split) >= 2 THEN split[2] ELSE <<>> >>

\* the HashMap built by inserting the pairs of an '&'-joined string in order:
\* a later pair with the same key replaces the earlier one
ParseParams(q) ==
    LET pairs == Split(q, "&")
        keys  == { PairOf(pairs[i])[1] : i \in 1..Len(pairs) }
        last(k) == CHOOSE i \in 1..Len(pairs) :
                       /\ PairOf(pairs[i])[1] = k
                       /\ \A j \in (i + 1)..Len(pairs) : PairOf(pairs[j])[1] # k
    IN  [k \in keys |-> PairOf(pairs[last(k)])[2]]

\* QueryString::from_request
from_request(query_string) == [params |-> ParseParams(query_string)]

\* QueryString::match_example
match_example(self, example_name) ==
    IF StartsWith(example_name, QueryPrefix)
    THEN LET query        == TrimStartMatches(example_name, QueryPrefix)
             query_params == ParseParams(query)
         IN  \A key \in DOMAIN self.params :
                 /\ key \in DOMAIN query_params
                 /\ query_params[key] = self.params[key]
    ELSE FALSE

\* ------------------------------------------------------------------------
\* Example selection (src/openapi/spec.rs)
\* ------------------------------------------------------------------------

\* the (example_name, e) pairs visited by the two nested loops, in order:
\* the collections in Vec order, each BTreeMap in key order; a
\* MediaTypeExamples::Example (single literal) falls to the `_ => {}` arm
RECURSIVE LoopEntries(_)
LoopEntries(examples) ==
    IF examples = <<>> THEN <<>>
    ELSE LET example == Head(examples)
             names   == IF example.tag = "Examples"
                        THEN SortedKeys(DOMAIN example.examples)
                        ELSE <<>>
         IN  [i \in 1..Len(names) |->
                 [example_name |-> names[i], e |-> example.examples[names[i]]]]
             \o LoopEntries(Tail(examples))

\* the loop body, from entry i on, with the remembered `default`
RECURSIVE ScanEntries(_, _, _, _, _)
ScanEntries(entries, i, default, path, query) ==
    IF i > Len(entries) THEN default
    ELSE IF entries[i].example_name = path THEN Some(entries[i].e)
    ELSE IF match_example(query, entries[i].example_name) THEN Some(entries[i].e)
    ELSE IF entries[i].example_name = DefaultName
         THEN ScanEntries(entries, i + 1, Some(entries[i].e), path, query)
    ELSE ScanEntries(entries, i + 1, default, path, query)

\* find_example_match(req)(examples)
find_example_match(req, examples) ==
    LET path  == req.path
        query == from_request(req.query)
    IN  ScanEntries(LoopEntries(examples), 1, None, path, query)

\* ------------------------------------------------------------------------
\* Path matching (src/openapi/spec.rs)
\* ------------------------------------------------------------------------

\* s.split('/').filter(|s| !s.is_empty()).collect()
Segments(s) == SelectSeq(Split(s, "/"), LAMBDA part : part # <<>>)

\* r.starts_with('{') && r.ends_with('}')
IsPlaceholder(r) == StartsWith(r, <<"{">>) /\ EndsWith(r, <<"}">>)

match_url(url, routes) ==
    LET url_parts == Segments(url)
    IN  \E k \in 1..Len(routes) :
            LET route_parts == Segments(routes[k])
            IN  /\ Len(url_parts) = Len(route_parts)
                /\ \A i \in 1..Len(route_parts) :
                       \/ IsPlaceholder(route_parts[i])
                       \/ route_parts[i] = url_parts[i]

\* spec.paths.iter().find(|(key, _)| match_url(path, &[*key])).map(value.clone())
load_path(path, spec) ==
    LET keys == SortedKeys(DOMAIN spec.paths)
    IN  IF \E i \in 1..Len(keys) : match_url(path, <<keys[i]>>)
        THEN LET first == CHOOSE i \in 1..Len(keys) :
                              /\ match_url(path, <<keys[i]>>)
                              /\ \A j \in 1..(i - 1) : ~match_url(path, <<keys[j]>>)
             IN  Some(spec.paths[keys[first]])
        ELSE None

\* ------------------------------------------------------------------------
\* Method selection
\* ------------------------------------------------------------------------

\* the method tokens of the model: the eight verbs in upper and lower case
\* and one token outside them
MethodTokens ==
    { "GET", "get", "PUT", "put", "POST", "post", "DELETE", "delete",
      "OPTIONS", "options", "HEAD", "head", "PATCH", "patch",
      "TRACE", "trace", "PURGE", "purge" }

to_lowercase ==
    [ t \in MethodTokens |->
        CASE t \in {"GET", "get"} -> "get"
          [] t \in {"PUT", "put"} -> "put"
          [] t \in {"POST", "post"} -> "post"
          [] t \in {"DELETE", "delete"} -> "delete"
          [] t \in {"OPTIONS", "options"} -> "options"
          [] t \in {"HEAD", "head"} -> "head"
          [] t \in {"PATCH", "patch"} -> "patch"
          [] t \in {"TRACE", "trace"} -> "trace"
          [] OTHER -> "purge" ]

to_uppercase ==
    [ t \in MethodTokens |->
        CASE t \in {"GET", "get"} -> "GET"
          [] t \in {"PUT", "put"} -> "PUT"
          [] t \in {"POST", "post"} -> "POST"
          [] t \in {"DELETE", "delete"} -> "DELETE"
          [] t \in {"OPTIONS", "options"} -> "OPTIONS"
          [] t \in {"HEAD", "head"} -> "HEAD"
          [] t \in {"PATCH", "patch"} -> "PATCH"
          [] t \in {"TRACE", "trace"} -> "TRACE"
          [] OTHER -> "PURGE" ]

\* load_method(&method) of src/openapi/spec.rs: a match on the lower-case token
load_method_str(method, path) ==
    CASE method = "get" -> path.get
      [] method = "put" -> path.put
      [] method = "post" -> path.post
      [] method = "delete" -> path.delete
      [] method = "options" -> path.options
      [] method = "head" -> path.head
      [] method = "patch" -> path.patch
      [] method = "trace" -> path.trace
      [] OTHER -> None

\* impl From<&str> for Method (src/spec.rs)
MethodFrom(s) ==
    LET u == to_uppercase[s]
    IN  CASE u = "GET" -> Some("Get")
          [] u = "POST" -> Some("Post")
          [] u = "PUT" -> Some("Put")
          [] u = "DELETE" -> Some("Delete")
          [] u = "OPTIONS" -> Some("Options")
          [] u = "HEAD" -> Some("Head")
          [] u = "PATCH" -> Some("Patch")
          [] u = "TRACE" -> Some("Trace")
          [] OTHER -> Panic("Invalid method")

\* load_method(method) of src/spec.rs: a match on the Method enum
load_method(method, path_item) ==
    CASE method = "Get" -> path_item.get
      [] method = "Post" -> path_item.post
      [] method = "Put" -> path_item.put
      [] method = "Delete" -> path_item.delete
      [] method = "Options" -> path_item.options
      [] method = "Head" -> path_item.head
      [] method = "Patch" -> path_item.patch
      [] method = "Trace" -> path_item.trace

\* ------------------------------------------------------------------------
\* Responses and references
\* ------------------------------------------------------------------------

\* ObjectOrReference::Object(x)
Object(x) == [tag |-> "Object", obj |-> x]

\* ObjectOrReference::Ref { ref_path }
Ref(ref_path) == [tag |-> "Ref", ref_path |-> ref_path]

\* a reference string "#/components/responses/<name>" is the two-token
\* sequence <<RefPrefix, name>>; a plain registry key <name> is <<name>>
RefPrefix == "#/components/responses/"

\* extract_response(response, spec); frames counts the nested calls, which
\* the code does not bound
RECURSIVE extract_response(_, _, _)
extract_response(response, spec, frames) ==
    IF frames > StackFrames THEN StackOverflow
    ELSE IF response.tag = "Object" THEN Some(response.obj)
    ELSE LET components == spec.components
         IN  IF components.tag = "None" THEN None
             ELSE LET resp == Get(components.val.responses, response.ref_path)
                  IN  IF resp.tag = "None" THEN None
                      ELSE extract_response(resp.val, spec, frames + 1)

\* load_responses(): every response of the operation, whatever its status key
load_responses(op) ==
    LET keys == SortedKeys(DOMAIN op.responses)
    IN  Some([i \in 1..Len(keys) |-> op.responses[keys[i]]])

\* the loop of load_examples over responses[i..]
RECURSIVE CollectExamples(_, _, _, _)
CollectExamples(spec, media_type, responses, i) ==
    IF i > Len(responses) THEN Some(<<>>)
    ELSE LET r    == extract_response(responses[i], spec, 1)
             rest == CollectExamples(spec, media_type, responses, i + 1)
         IN  IF r.tag = "StackOverflow" THEN StackOverflow
             ELSE IF rest.tag = "StackOverflow" THEN StackOverflow
             ELSE LET content == IF r.tag = "Some"
                                 THEN Get(r.val.content, media_type)
                                 ELSE None
                      found   == IF content.tag = "Some"
                                 THEN content.val.examples
                                 ELSE None
                  IN  IF found.tag = "Some"
                      THEN Some(<<found.val>> \o rest.val)
                      ELSE rest

load_examples(spec, media_type, responses) ==
    CollectExamples(spec, media_type, responses, 1)

\* example.resolve(&self.spec).ok() for an inline example
resolve_example(example, spec) ==
    IF example.tag = "Object" THEN Some(example.obj) ELSE None

\* Spec::get_example
get_example(self, req) ==
    LET path       == req.path
        method     == to_lowercase[req.method]
        media_type == "application/json"
        s1 == load_path(path, self.spec)
        s2 == AndThen(s1, LAMBDA item : load_method_str(method, item))
        s3 == AndThen(s2, LAMBDA op : load_responses(op))
        s4 == AndThen(s3, LAMBDA rs : load_examples(self.spec, media_type, rs))
        s5 == AndThen(s4, LAMBDA exs : find_example_match(req, exs))
        s6 == AndThen(s5, LAMBDA e : resolve_example(e, self.spec))
    IN  AndThen(s6, LAMBDA example : example.value)

\* ------------------------------------------------------------------------
\* The engine of src/spec.rs
\* ------------------------------------------------------------------------

Ok(x) == [tag |-> "Ok", val |-> x]

Err(msg) == [tag |-> "Err", msg |-> msg]

DigitChars == <<"0", "1", "2", "3", "4", "5", "6", "7", "8", "9">>

IsDigit(c) == \E d \in 1..10 : DigitChars[d] = c

DigitValue(c) == (CHOOSE d \in 1..10 : DigitChars[d] = c) - 1

RECURSIVE DecimalValue(_)
DecimalValue(s) ==
    IF s = <<>> THEN 0
    ELSE 10 * DecimalValue(SubSeq(s, 1, Len(s) - 1)) + DigitValue(s[Len(s)])

U16Max == 65535

\* str::parse::<u16>(): an optional '+', then digits, the value within u16
ParseU16(s) ==
    LET digits == IF s # <<>> /\ Head(s) = "+" THEN Tail(s) ELSE s
    IN  IF digits = <<>> \/ \E i \in 1..Len(digits) : ~IsDigit(digits[i])
        THEN None
        ELSE IF DecimalValue(digits) > U16Max THEN None
        ELSE Some(DecimalValue(digits))

\* u16::to_string(): decimal digits, no leading zero
RECURSIVE to_string(_)
to_string(n) ==
    IF n < 10 THEN <<DigitChars[n + 1]>>
    ELSE to_string(n \div 10) \o <<DigitChars[(n % 10) + 1]>>

\* load_endpoint: the path is looked up as a key of spec.paths
load_endpoint(spec, path, method) ==
    LET item == Get(spec.paths, path)
        op   == AndThen(item, LAMBDA path_item : load_method(method, path_item))
    IN  IF op.tag = "Some" THEN Ok(op.val) ELSE Err("Endpoint not found")

\* ObjectOrReference<Response>::resolve of the oas3 crate: a reference
\* "#/components/responses/<name>" is looked up under <name> and the entry
\* found is resolved in turn
RECURSIVE resolve(_, _, _)
resolve(objorref, spec, frames) ==
    IF frames > StackFrames THEN StackOverflow
    ELSE IF objorref.tag = "Object" THEN Ok(objorref.obj)
    ELSE IF ~(Len(objorref.ref_path) = 2 /\ objorref.ref_path[1] = RefPrefix)
         THEN Err("Unresolvable")
    ELSE IF spec.components.tag = "None" THEN Err("Unresolvable")
    ELSE LET target == Get(spec.components.val.responses, <<objorref.ref_path[2]>>)
         IN  IF target.tag = "None" THEN Err("Unresolvable")
             ELSE resolve(target.val, spec, frames + 1)

\* load_response
load_response(spec, op, status) ==
    LET status_str == to_string(status)
        objorref   == Get(op.responses, status_str)
    IN  IF objorref.tag = "None" THEN Err("Response not found")
        ELSE LET r == resolve(objorref.val, spec, 1)
             IN  CASE r.tag = "Ok" -> Ok(r.val)
                   [] r.tag = "Err" -> Err("Response not found")
                   [] OTHER -> r

\* load_example: the example of the schema of the content type
load_example(spec, response, content_type) ==
    LET content == Get(response.content, content_type)
    IN  IF content.tag = "None" THEN Panic("Content not found")
        ELSE IF content.val.schema.tag = "None" THEN Panic("Schema not found")
        ELSE content.val.schema.val.example

\* ------------------------------------------------------------------------
\* The HTTP handler (src/server.rs)
\* ------------------------------------------------------------------------

DefaultStatus == 200

\* get_status: the status codes the handler can answer with
get_status(status) ==
    IF status \in {200, 201, 202, 204, 400, 401, 403, 404, 405, 406, 409, 500}
    THEN status
    ELSE 500

\* HttpResponse::build(status).json(result): a None result is the body `null`
JsonResponse(status, result) == [status |-> status, body |-> result]

\* HttpResponse::InternalServerError().finish()
InternalServerError == [status |-> 500, body |-> [tag |-> "Empty"]]

\* the answer of the framework when no route matches the request
RouteNotFound == [status |-> 404, body |-> [tag |-> "Empty"]]

\* the route "/{status}/{tail:.*}" of get_scope: a non-empty first segment
\* without '/', a second '/', and any tail
MatchRoute(uri) ==
    LET parts == Split(uri, "/")
    IN  IF Len(uri) >= 1 /\ Head(uri) = "/" /\ Len(parts) >= 3 /\ parts[2] # <<>>
        THEN Some([status |-> parts[2],
                   tail   |-> SubSeq(uri, Len(parts[2]) + 3, Len(uri))])
        ELSE None

\* build_response; path and status are what handle_all derived from the URL
build_response(spec, path, method, status, content_type) ==
    LET op == load_endpoint(spec, path, method)
    IN  IF op.tag # "Ok" THEN op
        ELSE LET response == load_response(spec, op.val, status)
             IN  IF response.tag # "Ok" THEN response
                 ELSE LET result == load_example(spec, response.val, content_type)
                      IN  IF result.tag = "Panic" THEN result
                          ELSE Ok(JsonResponse(get_status(status), result))

\* handle_all for a request the route matched with match_info
handle_all(spec, req, match_info) ==
    LET method == MethodFrom(req.method)
        parsed == ParseU16(match_info.status)
        status == IF parsed.tag = "Some" THEN parsed.val ELSE DefaultStatus
        path   == <<"/">> \o match_info.tail
        content_type == IF req.content_type.tag = "Some"
                        THEN req.content_type.val
                        ELSE "application/json"
        built  == IF method.tag = "Some"
                  THEN build_response(spec, path, method.val, status, content_type)
                  ELSE method
    IN  [status |-> Some(status), path |-> Some(path),
         response |-> CASE built.tag = "Ok" -> built.val
                        [] built.tag = "Err" -> InternalServerError
                        [] OTHER -> built]

\* the service built by get_scope: route, then handler
serve(spec, req) ==
    LET match_info == MatchRoute(req.path)
    IN  IF match_info.tag = "Some"
        THEN handle_all(spec, req, match_info.val)
        ELSE [status |-> None, path |-> None, response |-> RouteNotFound]

\* ------------------------------------------------------------------------
\* Documents of the model
\* ------------------------------------------------------------------------

P_a == <<"/", "a">>

P_a_slash == <<"/", "a", "/">>

P_a1 == <<"/", "a", "/", "1">>

P_a12 == <<"/", "a", "/", "1", "/", "2">>

P_b == <<"/", "b">>

T_ab == <<"/", "a", "/", "{", "b", "}">>

K200 == <<"2", "0", "0">>

K404 == <<"4", "0", "4">>

K422 == <<"4", "2", "2">>

Q_none == <<>>

Q_p1 == <<"p", "=", "1">>

Q_p2 == <<"p", "=", "2">>

Q_p1l5 == <<"p", "=", "1", "&", "l", "=", "5">>

N_qp1 == QueryPrefix \o Q_p1

N_qp1l5 == QueryPrefix \o Q_p1l5

\* an inline named example with a value
Ex(v) == Object([value |-> Some(v)])

\* MediaTypeExamples::Examples { examples }
Examples(map) == [tag |-> "Examples", examples |-> map]

\* MediaTypeExamples::Example { example }
LiteralExample(v) == [tag |-> "Example", example |-> v]

\* MediaType { schema, examples }
MediaType(schema, examples) == [schema |-> schema, examples |-> examples]

Schema(example) == Some([example |-> example])

Response(content) == [content |-> content]

Operation(responses) == [responses |-> responses]

NoMethods ==
    [get |-> None, put |-> None, post |-> None, delete |-> None,
     options |-> None, head |-> None, patch |-> None, trace |-> None]

\* every example value of a document is 10 * (the status it is defined
\* under) + a serial number
OwnerStatus(v) == v \div 10

\* the responses a document can define for status 200
Responses200 ==
    { Response(("application/json" :>
                   MediaType(Schema(Some(2000)),
                             Some(Examples((DefaultName :> Ex(2001)) @@ (N_qp1 :> Ex(2002))))))
               @@ ("text/plain" :> MediaType(Schema(Some(2009)), None))),
      Response(("application/json" :>
                   MediaType(Schema(None),
                             Some(Examples((P_a1 :> Ex(2003)) @@ (N_qp1l5 :> Ex(2004))))))),
      Response(("application/json" :> MediaType(None, Some(LiteralExample(2005))))),
      Response(("text/plain" :> MediaType(Schema(Some(2009)), None))) }

\* the shared response a registry entry ends in
SharedNotFound ==
    Response(("application/json" :>
                 MediaType(Schema(Some(4040)), Some(Examples((DefaultName :> Ex(4043)))))))

\* the inline responses a document can define for status 404
Responses404 ==
    { Response(("application/json" :>
                   MediaType(Schema(Some(4040)), Some(Examples((DefaultName :> Ex(4041))))))),
      Response(("application/json" :>
                   MediaType(Schema(Some(4040)), Some(Examples((P_a :> Ex(4042))))))) }

Response422 ==
    Response(("application/json" :>
                 MediaType(Schema(Some(4220)), Some(Examples((N_qp1 :> Ex(4221)))))))

RefA == <<RefPrefix, "A">>

RefB == <<RefPrefix, "B">>

\* the component registries: none, a shared response, a chain of two
\* references, an entry keyed by the reference string itself, and two cycles
Registries ==
    { None,
      Some([responses |-> (<<"A">> :> Object(SharedNotFound))]),
      Some([responses |-> (<<"A">> :> Ref(RefB)) @@ (<<"B">> :> Object(SharedNotFound))]),
      Some([responses |-> (RefA :> Object(SharedNotFound))]),
      Some([responses |-> (RefA :> Ref(RefB)) @@ (RefB :> Ref(RefA))]),
      Some([responses |-> (<<"A">> :> Ref(RefA))]) }

\* a document: GET on /a and on /a/{b}, with the given responses
Document(responses, components) ==
    [paths |-> (P_a :> [NoMethods EXCEPT !.get = Some(Operation(responses))])
               @@ (T_ab :> [NoMethods EXCEPT !.get = Some(Operation(responses))]),
     components |-> components]

Documents ==
    { Document((K200 :> Object(r200)), None) : r200 \in Responses200 }
    \cup { Document((K200 :> Object(r200)) @@ (K404 :> Object(r404))
                     @@ (K422 :> Object(Response422)), None) :
               r200 \in Responses200, r404 \in Responses404 }
    \cup { Document((K404 :> Object(r404)), None) : r404 \in Responses404 }
    \cup { Document((K200 :> Object(r200)) @@ (K404 :> Ref(RefA)), components) :
               r200 \in { r \in Responses200 : "text/plain" \in DOMAIN r.content },
               components \in Registries }

\* ------------------------------------------------------------------------
\* Requests of the model
\* ------------------------------------------------------------------------

QueryStrings == { Q_none, Q_p1, Q_p2, Q_p1l5 }

\* requests handed to Spec::get_example
EngineRequests ==
    [ method : {"GET", "POST", "PURGE"},
      path : { P_a, P_a_slash, P_a1, P_a12, P_b, K404 \o P_a },
      query : QueryStrings,
      content_type : {None} ]

S200 == <<"/">> \o K200

S404 == <<"/">> \o K404

S422 == <<"/">> \o K422

S500 == <<"/", "5", "0", "0">>

S0200 == <<"/", "0">> \o K200

\* GET requests sent to the server: the route of get_scope is a GET route
ServerRequests ==
    [ method : {"GET"},
      path : { S200 \o P_a, S404 \o P_a, S422 \o P_a, S500 \o P_a, S0200 \o P_a,
               S200 \o P_a1, S200 \o P_a_slash, S200 \o P_b, S200,
               P_a, P_a1, P_a_slash },
      query : {Q_none},
      content_type : {None, Some("text/plain")} ]

\* the example names of the model
ExampleNames == { P_a, DefaultName, N_qp1, N_qp1l5 }

NameIndex(n) ==
    CASE n = P_a -> 1 [] n = DefaultName -> 2 [] n = N_qp1 -> 3 [] OTHER -> 4

\* the collection number i with the given names: the entry named n holds
\* the value 10 * i + NameIndex(n)
Collection(i, names) == Examples([n \in names |-> Ex(10 * i + NameIndex(n))])

CollectionsAt(i) ==
    { Collection(i, names) :
          names \in { ns \in SUBSET ExampleNames : Cardinality(ns) <= MaxEntries } }
    \cup { LiteralExample(10 * i) }

RECURSIVE ExampleVecs(_)
ExampleVecs(n) ==
    IF n = 0 THEN { <<>> }
    ELSE ExampleVecs(n - 1)
         \cup { Append(v, c) : v \in { w \in ExampleVecs(n - 1) : Len(w) = n - 1 },
                               c \in CollectionsAt(n) }

\* the operations of a document
OperationsOf(spec) ==
    { spec.paths[k].get.val : k \in { t \in DOMAIN spec.paths : spec.paths[t].get.tag = "Some" } }

\* the responses-or-references of a document
ResponsesOf(spec) ==
    UNION { { o.responses[k] : k \in DOMAIN o.responses } : o \in OperationsOf(spec) }
    \cup (IF spec.components.tag = "Some"
          THEN { spec.components.val.responses[k] : k \in DOMAIN spec.components.val.responses }
          ELSE {})

\* ------------------------------------------------------------------------
\* State
\* ------------------------------------------------------------------------

VARIABLES
    doc,      \* the loaded document (Spec.spec / AppState.spec)
    call,     \* the call being answered: its operation, inputs and result
    handlers  \* the request handlers running concurrently on the document

vars == <<doc, call, handlers>>

Idle == [op |-> "idle"]

\* largest number of handlers running at the same time
NumWorkers == 2

Workers == 1..NumWorkers

Waiting == [pc |-> "idle"]

Init ==
    /\ doc \in Documents
    /\ call = Idle
    /\ handlers = [w \in Workers |-> Waiting]

\* QueryString::from_request(req).match_example(example_name)
MatchExample ==
    /\ call = Idle
    /\ \E q \in QueryStrings, n \in ExampleNames \cup {Q_p1} :
           call' = [op |-> "match_example", query |-> q, example_name |-> n,
                    result |-> match_example(from_request(q), n)]
    /\ UNCHANGED <<doc, handlers>>

\* find_example_match(req)(examples)
FindExampleMatch ==
    /\ call = Idle
    /\ \E q \in QueryStrings, examples \in ExampleVecs(MaxCollections) :
           LET req == [method |-> "GET", path |-> P_a, query |-> q, content_type |-> None]
           IN  call' = [op |-> "find_example_match", req |-> req, examples |-> examples,
                        result |-> find_example_match(req, examples)]
    /\ UNCHANGED <<doc, handlers>>

\* load_path(path)(&spec)
LoadPath ==
    /\ call = Idle
    /\ \E path \in { P_a, P_a_slash, P_a1, P_a12, P_b, T_ab } :
           call' = [op |-> "load_path", path |-> path, result |-> load_path(path, doc)]
    /\ UNCHANGED <<doc, handlers>>

\* load_endpoint(&spec, path, method)
LoadEndpoint ==
    /\ call = Idle
    /\ \E path \in { P_a, P_a_slash, P_a1, P_a12, P_b, T_ab }, method \in {"Get", "Post"} :
           call' = [op |-> "load_endpoint", path |-> path, method |-> method,
                    result |-> load_endpoint(doc, path, method)]
    /\ UNCHANGED <<doc, handlers>>

\* extract_response(response, &spec)
ExtractResponse ==
    /\ call = Idle
    /\ \E response \in ResponsesOf(doc) \cup {Ref(RefA), Ref(<<"A">>)} :
           call' = [op |-> "extract_response", response |-> response,
                    result |-> extract_response(response, doc, 1)]
    /\ UNCHANGED <<doc, handlers>>

\* load_response(&spec, &op, status)
LoadResponse ==
    /\ call = Idle
    /\ \E o \in OperationsOf(doc), status \in {200, 404, 422, 500} :
           call' = [op |-> "load_response", operation |-> o, status |-> status,
                    result |-> load_response(doc, o, status)]
    /\ UNCHANGED <<doc, handlers>>

\* Spec::get_example(&req)
GetExample ==
    /\ call = Idle
    /\ \E req \in EngineRequests :
           call' = [op |-> "get_example", req |-> req,
                    result |-> get_example([spec |-> doc], req)]
    /\ UNCHANGED <<doc, handlers>>

\* a GET request answered by the service of get_scope
Serve ==
    /\ call = Idle
    /\ \E req \in ServerRequests :
           LET out == serve(doc, req)
           IN  call' = [op |-> "serve", req |-> req, status |-> out.status,
                        path |-> out.path, response |-> out.response]
    /\ UNCHANGED <<doc, handlers>>

\* Method::from(s) of src/spec.rs
ConvertMethod ==
    /\ call = Idle
    /\ \E token \in MethodTokens :
           call' = [op |-> "method_from", token |-> token, result |-> MethodFrom(token)]
    /\ UNCHANGED <<doc, handlers>>

\* load_method(&method)(path) of src/openapi/spec.rs, the method lower-cased
\* as Spec::get_example does
SelectMethod ==
    /\ call = Idle
    /\ \E token \in MethodTokens, t \in DOMAIN doc.paths :
           call' = [op |-> "load_method", token |-> token, path_item |-> doc.paths[t],
                    result |-> load_method_str(to_lowercase[token], doc.paths[t])]
    /\ UNCHANGED <<doc, handlers>>

\* load_example(&spec, &response, content_type) of src/spec.rs
LoadExample ==
    /\ call = Idle
    /\ \E o \in OperationsOf(doc), k \in {K200, K404, K422},
          content_type \in {"application/json", "text/plain"} :
           /\ k \in DOMAIN o.responses
           /\ o.responses[k].tag = "Object"
           /\ call' = [op |-> "load_example", response |-> o.responses[k].obj,
                       content_type |-> content_type,
                       result |-> load_example(doc, o.responses[k].obj, content_type)]
    /\ UNCHANGED <<doc, handlers>>

\* the result is handed back; the document stays loaded
Return ==
    /\ call # Idle
    /\ call' = Idle
    /\ UNCHANGED <<doc, handlers>>

Next ==
    \/ MatchExample
    \/ FindExampleMatch
    \/ LoadPath
    \/ LoadEndpoint
    \/ ExtractResponse
    \/ LoadResponse
    \/ GetExample
    \/ Serve
    \/ ConvertMethod
    \/ SelectMethod
    \/ LoadExample
    \/ Return

Spec == Init /\ [][Next]_vars

\* ------------------------------------------------------------------------
\* Concurrent handlers on the shared document
\* ------------------------------------------------------------------------

\* requests of the concurrent handlers: to Spec::get_example ("engine") and
\* to the service of get_scope ("server")
ConcurrentRequests ==
    { [kind |-> "engine",
       req |-> [method |-> "GET", path |-> P_a, query |-> Q_none, content_type |-> None]],
      [kind |-> "engine",
       req |-> [method |-> "GET", path |-> P_a1, query |-> Q_p1, content_type |-> None]],
      [kind |-> "server",
       req |-> [method |-> "GET", path |-> S404 \o P_a, query |-> Q_none, content_type |-> None]] }

\* the request a handler works on: each handler owns its HttpRequest
RequestOfShared(w) ==
    LET busy == { v \in Workers : "req" \in DOMAIN handlers[v] }
    IN  handlers[CHOOSE v \in busy : \A o \in busy : v <= o].req

RequestOf(w) == handlers[w].req

\* a handler that ended with the given result
Done(h, result) == [pc |-> "done", kind |-> h.kind, req |-> h.req, result |-> result]

\* a handler that moved to the next stage with the value of the last one
At(h, pc, acc) == [pc |-> pc, kind |-> h.kind, req |-> h.req, acc |-> acc]

\* the stages of the and_then chain of Spec::get_example, in order
EngineStages ==
    << "load_path", "load_method", "load_responses", "load_examples",
       "find_example_match", "resolve", "value" >>

\* what a stage of Spec::get_example yields from the value of the stage
\* before it, for the request req on the document spec
EngineStage(pc, acc, req, spec) ==
    CASE pc = "load_path" -> load_path(req.path, spec)
      [] pc = "load_method" -> load_method_str(to_lowercase[req.method], acc)
      [] pc = "load_responses" -> load_responses(acc)
      [] pc = "load_examples" -> load_examples(spec, "application/json", acc)
      [] pc = "find_example_match" -> find_example_match(req, acc)
      [] pc = "resolve" -> resolve_example(acc, spec)
      [] pc = "value" -> acc.value

\* what handle_all answers when build_response fails with x
Failed(x) == IF x.tag = "Err" THEN InternalServerError ELSE x

\* whether a handler ended by exhausting the stack
Overflowed(h) ==
    h.pc = "done" /\ "tag" \in DOMAIN h.result /\ h.result.tag = "StackOverflow"

\* the handler after one stage of handle_all / build_response
ServerStage(h, req, spec) ==
    CASE h.pc = "route" ->
             LET match_info == MatchRoute(req.path)
                 method     == MethodFrom(req.method)
                 parsed     == IF match_info.tag = "Some"
                               THEN ParseU16(match_info.val.status) ELSE None
             IN  IF match_info.tag = "None" THEN Done(h, RouteNotFound)
                 ELSE IF method.tag # "Some" THEN Done(h, method)
                 ELSE At(h, "load_endpoint",
                         [method |-> method.val,
                          status |-> IF parsed.tag = "Some" THEN parsed.val ELSE DefaultStatus,
                          path |-> <<"/">> \o match_info.val.tail,
                          content_type |-> IF req.content_type.tag = "Some"
                                           THEN req.content_type.val
                                           ELSE "application/json"])
      [] h.pc = "load_endpoint" ->
             LET op == load_endpoint(spec, h.acc.path, h.acc.method)
             IN  IF op.tag = "Ok"
                 THEN At(h, "load_response", [h.acc EXCEPT !.method = op.val])
                 ELSE Done(h, Failed(op))
      [] h.pc = "load_response" ->
             LET response == load_response(spec, h.acc.method, h.acc.status)
             IN  IF response.tag = "Ok"
                 THEN At(h, "load_example", [h.acc EXCEPT !.method = response.val])
                 ELSE Done(h, Failed(response))
      [] h.pc = "load_example" ->
             LET result == load_example(spec, h.acc.method, h.acc.content_type)
             IN  IF result.tag = "Panic" THEN Done(h, result)
                 ELSE Done(h, JsonResponse(get_status(h.acc.status), result))

\* the handler after one stage of Spec::get_example
EngineAdvance(h, req, spec) ==
    LET out  == EngineStage(h.pc, h.acc, req, spec)
        here == CHOOSE i \in 1..Len(EngineStages) : EngineStages[i] = h.pc
    IN  IF out.tag = "Some" /\ here < Len(EngineStages)
        THEN At(h, EngineStages[here + 1], out.val)
        ELSE Done(h, out)

\* a request arrives at an idle handler
Accept(w) ==
    /\ handlers[w].pc = "idle"
    /\ \E r \in ConcurrentRequests :
           handlers' = [handlers EXCEPT ![w] =
                           [pc |-> IF r.kind = "engine" THEN "load_path" ELSE "route",
                            kind |-> r.kind, req |-> r.req, acc |-> None]]
    /\ UNCHANGED <<doc, call>>

\* a handler runs its next stage, reading the document; when the stage
\* exhausts the stack the process aborts and every handler ends with it
Advance(w) ==
    /\ handlers[w].pc \notin {"idle", "done", "aborted"}
    /\ LET h    == handlers[w]
           next == IF h.kind = "engine"
                   THEN EngineAdvance(h, RequestOf(w), doc)
                   ELSE ServerStage(h, RequestOf(w), doc)
       IN  IF Overflowed(next)
           THEN handlers' = [v \in Workers |-> [pc |-> "aborted"]]
           ELSE handlers' = [handlers EXCEPT ![w] = next]
    /\ UNCHANGED <<doc, call>>

\* the result is handed back and the handler waits for the next request
Respond(w) ==
    /\ handlers[w].pc = "done"
    /\ handlers' = [handlers EXCEPT ![w] = Waiting]
    /\ UNCHANGED <<doc, call>>

NextConcurrent ==
    \/ \E w \in Workers : Accept(w)
    \/ \E w \in Workers : Advance(w)
    \/ \E w \in Workers : Respond(w)

SpecConcurrent == Init /\ [][NextConcurrent]_vars

\* ------------------------------------------------------------------------
\* Properties
\* ------------------------------------------------------------------------

\* the pairs an example name `query:k1=v1&...&kn=vn` lists
ExamplePairs(example_name) ==
    ParseParams(SubSeq(example_name, Len(QueryPrefix) + 1, Len(example_name)))

\* every pair of the example name is present with an equal value in the
\* request's query string
SubsetOfRequest(example_name, query_string) ==
    /\ StartsWith(example_name, QueryPrefix)
    /\ LET wanted == ExamplePairs(example_name)
           given  == ParseParams(query_string)
       IN  \A k \in DOMAIN wanted : k \in DOMAIN given /\ given[k] = wanted[k]

\* C1: for an example name of the form query:k1=v1&...&kn=vn, match_example
\* returns true exactly when every pair of the example name is present with
\* an equal value in the request's query string; parameters of the request
\* that the name does not mention are ignored.
C1_QuerySubsetOfRequest ==
    (call.op = "match_example" /\ StartsWith(call.example_name, QueryPrefix))
        => (call.result <=> SubsetOfRequest(call.example_name, call.query))

\* the status a request asks for: its numeric first segment, 200 without one
RequestedStatus(path) ==
    LET segs   == Segments(path)
        parsed == IF segs = <<>> THEN None ELSE ParseU16(segs[1])
    IN  IF parsed.tag = "Some" THEN parsed.val ELSE DefaultStatus

\* C2: example resolution is keyed by the requested status code: the example
\* returned belongs to the response of the requested status, and a status the
\* operation does not define yields absence, without a fallback to another
\* status.
C2_KeyedByRequestedStatus ==
    /\ (call.op = "load_response" /\ to_string(call.status) \notin DOMAIN call.operation.responses)
           => call.result.tag = "Err"
    /\ (call.op = "get_example" /\ call.result.tag = "Some")
           => OwnerStatus(call.result.val) = RequestedStatus(call.req.path)
    /\ (call.op = "serve" /\ "body" \in DOMAIN call.response /\ call.response.body.tag = "Some")
           => OwnerStatus(call.response.body.val) = call.status.val

\* C3: in find_example_match, when the collected entries hold an entry named
\* after the request path and an entry whose query: name matches the request
\* query, the entry named after the path is the one returned, whatever the
\* order of the two.
C3_ExactPathBeatsQuery ==
    call.op = "find_example_match" =>
        LET entries == LoopEntries(call.examples)
            exact(i) == entries[i].example_name = call.req.path
            byQuery(i) == SubsetOfRequest(entries[i].example_name, call.req.query)
        IN  ((\E i \in 1..Len(entries) : exact(i)) /\ (\E j \in 1..Len(entries) : byQuery(j)))
                => \E i \in 1..Len(entries) : exact(i) /\ call.result = Some(entries[i].e)

\* C4: the example named default is a last resort: if any entry is an exact
\* path match or a structured query match, the example returned is never the
\* default entry.
C4_DefaultOnlyLastResort ==
    call.op = "find_example_match" =>
        LET entries == LoopEntries(call.examples)
            matches(i) == \/ entries[i].example_name = call.req.path
                          \/ SubsetOfRequest(entries[i].example_name, call.req.query)
        IN  (\E i \in 1..Len(entries) : matches(i))
                => ~\E d \in 1..Len(entries) :
                        /\ entries[d].example_name = DefaultName
                        /\ call.result = Some(entries[d].e)

\* C5: when no entry is an exact path match and no entry is a structured
\* query match, find_example_match returns the entry named default if there
\* is one and None if there is none.
C5_NoMatchFallsToDefault ==
    call.op = "find_example_match" =>
        LET entries == LoopEntries(call.examples)
            matches(i) == \/ entries[i].example_name = call.req.path
                          \/ SubsetOfRequest(entries[i].example_name, call.req.query)
            defaults == { d \in 1..Len(entries) : entries[d].example_name = DefaultName }
        IN  (~\E i \in 1..Len(entries) : matches(i))
                => IF defaults = {} THEN call.result = None
                   ELSE \E d \in defaults : call.result = Some(entries[d].e)

\* the rule of path matching: same number of non-empty segments, and at
\* every position a {...} placeholder in the template or equal segments
TemplateMatches(template, path) ==
    LET t == Segments(template)
        u == Segments(path)
    IN  /\ Len(t) = Len(u)
        /\ \A i \in 1..Len(t) :
               \/ (Len(t[i]) >= 2 /\ t[i][1] = "{" /\ t[i][Len(t[i])] = "}")
               \/ t[i] = u[i]

\* C6: every path lookup of the engine, load_path and load_endpoint, finds a
\* path entry if and only if a template of the document matches the request
\* path by the rule of path matching.
C6_PathLookupFollowsRule ==
    /\ call.op = "load_path"
           => (call.result.tag = "Some"
                   <=> \E t \in DOMAIN doc.paths : TemplateMatches(t, call.path))
    /\ (call.op = "load_endpoint" /\ call.method = "Get")
           => (call.result.tag = "Ok"
                   <=> \E t \in DOMAIN doc.paths :
                           TemplateMatches(t, call.path) /\ doc.paths[t].get.tag = "Some")

\* C7: resolving a response reference always ends, also in a registry whose
\* references form a cycle: extract_response yields a Response or None and
\* never recurses until the stack is exhausted.
C7_ExtractResponseEnds ==
    /\ call.op = "extract_response" => call.result.tag \in {"Some", "None"}
    /\ call.op = "get_example" => call.result.tag \in {"Some", "None"}

\* C8: every resolution failure is answered with HTTP 404: a request that
\* does not end in an example (no template, no method, no response for the
\* status, a broken reference, no example) has a response of status 404.
C8_FailureIs404 ==
    call.op = "serve" =>
        LET r == call.response
            found == "body" \in DOMAIN r /\ r.body.tag = "Some"
        IN  ~found => ("status" \in DOMAIN r /\ r.status = 404)

\* C9: the HTTP status of the mock response is the status code S of the URL:
\* when the matched operation defines a response for S with an example for
\* the content type, the answer has status S and that example as its body.
C9_StatusOfUrlIsAnswered ==
    (call.op = "serve" /\ call.status.tag = "Some") =>
        LET S  == call.status.val
            ct == IF call.req.content_type.tag = "Some"
                  THEN call.req.content_type.val ELSE "application/json"
            o  == load_endpoint(doc, call.path.val, "Get")
            r  == IF o.tag = "Ok" THEN load_response(doc, o.val, S) ELSE o
            e  == IF r.tag = "Ok" THEN load_example(doc, r.val, ct) ELSE r
        IN  e.tag = "Some" => call.response = JsonResponse(S, e)

\* C10: a request whose path P carries no numeric status segment is resolved
\* with status 200 against P itself: no segment of P is taken as the status.
C10_NoPrefixMeans200OnFullPath ==
    (call.op = "serve" /\ ParseU16(Segments(call.req.path)[1]).tag = "None")
        => (call.status = Some(DefaultStatus) /\ call.path = Some(call.req.path))

\* the eight supported verbs, in the lower case load_method matches on
SupportedVerbs == {"get", "put", "post", "delete", "options", "head", "patch", "trace"}

\* C11: an unknown or unsupported method token yields "not found" and never
\* aborts: Method::from does not panic on any token, and load_method returns
\* None for a token outside the eight verbs and for a verb the path entry
\* does not define.
C11_UnknownMethodIsNotFound ==
    /\ call.op = "method_from" => call.result.tag # "Panic"
    /\ call.op = "load_method" =>
           LET verb == to_lowercase[call.token]
           IN  (verb \notin SupportedVerbs \/ call.path_item[verb].tag = "None")
                   => call.result = None

\* the literal example a response holds for a content type, if it holds one
LiteralOf(response, content_type) ==
    IF content_type \in DOMAIN response.content
       /\ response.content[content_type].examples.tag = "Some"
       /\ response.content[content_type].examples.val.tag = "Example"
    THEN Some(response.content[content_type].examples.val.example)
    ELSE None

\* C12: when the MediaType of the requested content type holds a single
\* literal example and no named collection, example selection returns that
\* literal: find_example_match finds it, Spec::get_example returns it for the
\* response of the request, and load_example returns it for the response.
C12_LiteralExampleReturned ==
    /\ (call.op = "find_example_match" /\ Len(call.examples) = 1
            /\ call.examples[1].tag = "Example")
           => call.result.tag = "Some"
    /\ call.op = "get_example" =>
           LET item == load_path(call.req.path, doc)
               r200 == IF item.tag = "Some" /\ item.val.get.tag = "Some"
                          /\ K200 \in DOMAIN item.val.get.val.responses
                          /\ item.val.get.val.responses[K200].tag = "Object"
                       THEN LiteralOf(item.val.get.val.responses[K200].obj, "application/json")
                       ELSE None
           IN  (call.req.method = "GET" /\ r200.tag = "Some") => call.result = r200
    /\ call.op = "load_example" =>
           LET literal == LiteralOf(call.response, call.content_type)
           IN  literal.tag = "Some" => call.result = literal

\* C13: example absence is a value, not a crash: when the resolved response
\* has no MediaType entry for the requested content type, or the entry
\* carries no example data, load_example and get_example return None, and
\* the handler completes with a response.
C13_AbsentExampleIsNone ==
    /\ call.op = "load_example" =>
           LET content == Get(call.response.content, call.content_type)
               absent  == \/ content.tag = "None"
                          \/ content.val.schema.tag = "None"
                          \/ content.val.schema.val.example.tag = "None"
           IN  absent => call.result = None
    /\ call.op = "get_example" =>
           LET item == load_path(call.req.path, doc)
               lone == /\ item.tag = "Some" /\ item.val.get.tag = "Some"
                       /\ DOMAIN item.val.get.val.responses = {K200}
                       /\ item.val.get.val.responses[K200].tag = "Object"
           IN  (lone /\ "application/json" \notin
                            DOMAIN item.val.get.val.responses[K200].obj.content)
                   => call.result = None
    /\ (call.op = "serve" /\ call.status.tag = "Some") =>
           LET o == load_endpoint(doc, call.path.val, "Get")
               r == IF o.tag = "Ok" THEN load_response(doc, o.val, call.status.val) ELSE o
           IN  r.tag = "Ok" => "status" \in DOMAIN call.response

\* the result of a handler's request when it is the only one running
AloneResult(h) ==
    IF h.kind = "engine"
    THEN get_example([spec |-> doc], h.req)
    ELSE serve(doc, h.req).response

\* every handler that has ended holds the result of its request run alone
ResultsIndependent ==
    \A w \in Workers :
        handlers[w].pc = "done" => handlers[w].result = AloneResult(handlers[w])

\* C14: request handlers never change the shared Document: under every
\* interleaving of concurrent handlers no step changes the Document, and a
\* handler that ends holds the result its request has when run alone on the
\* Document.
C14_DocumentSharedReadOnly == [][doc' = doc]_vars /\ []ResultsIndependent

\* two handlers with different requests, one ended with an example while the
\* other is in the middle of its stages
C14_Witness ==
    \E w1, w2 \in Workers :
        /\ handlers[w1].pc = "done"
        /\ handlers[w1].kind = "engine"
        /\ handlers[w1].result.tag = "Some"
        /\ handlers[w2].pc \notin {"idle", "done", "aborted"}
        /\ handlers[w2].req # handlers[w1].req

====
